---- MODULE Spec2Model ----
(***************************************************************************)
(* Model of the DesignWare I2C master transaction engine of jh71xx-hal     *)
(* (src/src/i2c.rs and src/src/i2c/*.rs).                                  *)
(*                                                                         *)
(* The engine (struct I2c) is the record `dev`.  The controller is seen    *)
(* only through the register access trait: every register access of a     *)
(* call is appended to `log`, and the values the hardware answers to the   *)
(* reads of a call are inputs of the action that models the call.          *)
(***************************************************************************)
EXTENDS Integers, Sequences, FiniteSets, TLC

VARIABLES
    dev,     \* the fields of struct I2c
    setup,   \* how far the documented set-up sequence has got
    pc,      \* "idle": no call in progress; "done": a call has returned
    call,    \* the call that returned last: name, arguments, hardware answers
    pre,     \* the fields of struct I2c when that call started
    ret,     \* its return value
    log,     \* the register accesses it made, in program order
    calls,   \* the read-path / write-path calls a transaction made, in order
    bufs     \* the caller's buffers after the call (one per operation)

vars == <<dev, setup, pc, call, pre, ret, log, calls, bufs>>

----------------------------------------------------------------------------
(* Bounds of the model *)

MaxFifo == 2      \* largest FIFO depth / FIFO level tried
MaxLen == 2       \* longest buffer of the enumerated operation lists
MaxOps == 3       \* longest operation list of a transaction
MaxOutstanding == 2  \* calls are not started once tx_outstanding reached this

----------------------------------------------------------------------------
(* Bit operations on u32 register values *)

RECURSIVE BitAnd(_, _)
BitAnd(a, b) ==
    IF a = 0 \/ b = 0 THEN 0
    ELSE (a % 2) * (b % 2) + 2 * BitAnd(a \div 2, b \div 2)

BitOr(a, b) == a + b - BitAnd(a, b)

\* a & !b
BitClear(a, b) == a - BitAnd(a, b)

\* bitflag_is_set!: self & oth != NONE
is_set(self, oth) == BitAnd(self, oth) # 0

bitflag_from_u32_mut(val, mask) == val

\* bitflag_from_u32!: Self(val & Self::MASK.bits())
bitflag_from_u32(val, mask) == BitAnd(val, mask)

----------------------------------------------------------------------------
(* Register bitfields (src/src/i2c/registers.rs, src/src/i2c.rs) *)

NONE == 0

Status_ACTIVE == 1
Status_WRITE_IN_PROGRESS == 2
Status_READ_IN_PROGRESS == 4
Status_MASK == 7

I2cMsgFlag_RECV_LEN == 1024

I2cCon_MASTER == 1
I2cCon_SPEED_STD == 2
I2cCon_SPEED_FAST == 4
I2cCon_SPEED_HIGH == 6
I2cCon_MASTER_10BIT == 16
I2cCon_RESTART_EN == 32
I2cCon_SLAVE_DISABLE == 64
I2cCon_MASK == 3071

I2cIntr_RX_UNDER == 1
I2cIntr_RX_OVER == 2
I2cIntr_RX_FULL == 4
I2cIntr_TX_OVER == 8
I2cIntr_TX_EMPTY == 16
I2cIntr_RD_REQ == 32
I2cIntr_TX_ABRT == 64
I2cIntr_RX_DONE == 128
I2cIntr_ACTIVITY == 256
I2cIntr_STOP_DET == 512
I2cIntr_START_DET == 1024
I2cIntr_GEN_CALL == 2048
I2cIntr_RESTART_DET == 4096
I2cIntr_MST_ON_HOLD == 8192
I2cIntr_MASK == 16383

\* impl Default for I2cInterruptMask
I2cInterruptMask_default ==
    BitOr(BitOr(I2cIntr_RX_FULL, I2cIntr_TX_ABRT), I2cIntr_STOP_DET)

\* I2cInterruptMask::master()
I2cInterruptMask_master == BitOr(I2cInterruptMask_default, I2cIntr_TX_EMPTY)

I2cTar_ADDR_MASK_7BIT == 127
I2cTar_ADDR_MASK_10BIT == 1023
I2cTar_MODE_10BIT == 4096
I2cTar_MASK == 5119

I2cSar_MASK == 1023

I2cEnable_ENABLE == 1
I2cEnable_ABORT == 2
I2cEnable_MASK == 3

I2cEnableStatus_ACTIVITY == 1
I2cEnableStatus_MASK == 125

I2cDataCmd_DATA_MASK == 255
I2cDataCmd_READ == 256
I2cDataCmd_STOP == 512
I2cDataCmd_RESTART == 1024
I2cDataCmd_FIRST_DATA_BYTE == 2048
I2cDataCmd_MASK == 4095

\* I2cDataCmd::data()
I2cDataCmd_data(cmd) == BitAnd(cmd, I2cDataCmd_DATA_MASK)

\* impl From<u8> for I2cDataCmd
I2cDataCmd_from_u8(val) == val

I2cTxAbortSource_B7_ADDR_NOACK == 1
I2cTxAbortSource_B10_ADDR1_NOACK == 2
I2cTxAbortSource_B10_ADDR2_NOACK == 4
I2cTxAbortSource_TXDATA_NOACK == 8
I2cTxAbortSource_ARB_LOST == 4096
I2cTxAbortSource_MASK == 65215

I2cFunc_ADDRESS_10BIT == 2

\* impl Default for I2cFunc: I2C | SMBUS_BYTE | SMBUS_BYTE_DATA |
\* SMBUS_WORD_DATA | SMBUS_BLOCK_DATA | SMBUS_I2C_BLOCK
I2cFunc_default == 1 + 393216 + 1572864 + 6291456 + 50331648 + 201326592

I2C_SMBUS_BLOCK_MAX == 32

----------------------------------------------------------------------------
(* Register access log *)

Rd(reg, val) == [val |-> val, reg |-> reg, op |-> "r"]
Wr(reg, val) == [val |-> val, reg |-> reg, op |-> "w"]

\* DelayNs::delay_us on the cycle-counter delay
Delay(us) == [val |-> us, reg |-> "delay_us", op |-> "d"]

Min(a, b) == IF a <= b THEN a ELSE b

\* u32::saturating_sub / usize::saturating_sub
saturating_sub(a, b) == IF a >= b THEN a - b ELSE 0

\* u32::saturating_add: the counters of the model stay below MaxOutstanding
\* and the poll time below 2 * timeout, far from u32::MAX, where it is a + b
saturating_add(a, b) == a + b

\* what a call returns: Ok(()), Err(e), or the value of a call that returns
\* no Result
Ok == [val |-> <<>>, ok |-> TRUE, err |-> "none"]
Err(e) == [val |-> <<>>, ok |-> FALSE, err |-> e]
Value(v) == [val |-> v, ok |-> TRUE, err |-> "none"]

----------------------------------------------------------------------------
(* I2c::new *)

I2c_new ==
    [ status |-> NONE,
      rx_fifo_depth |-> 0,
      tx_fifo_depth |-> 0,
      tx_buf_len |-> 0,
      rx_buf_len |-> 0,
      tx_outstanding |-> 0,
      rx_outstanding |-> 0,
      tx_flag |-> NONE,
      rx_flag |-> NONE,
      master_cfg |-> NONE,
      functionality |-> I2cFunc_default,
      ss_hcnt |-> 0, ss_lcnt |-> 0,
      fs_hcnt |-> 0, fs_lcnt |-> 0,
      hs_hcnt |-> 0, hs_lcnt |-> 0,
      sda_hold_time |-> 0,
      bus_freq_hz |-> "Standard",
      mode |-> "Master",
      msg_err |-> 0 ]

----------------------------------------------------------------------------
(* I2cPeripheral::read_clear_interrupt.  stat is the value the masked      *)
(* interrupt status register answers, src the value the abort source       *)
(* register answers if it is read.                                         *)

ClearIf_mut(stat, bit, reg) == <<Rd(reg, 0)>>

ClearIf(stat, bit, reg) ==
    IF is_set(stat, bit) THEN <<Rd(reg, 0)>> ELSE <<>>

read_clear_interrupt(stat, src) ==
    [ log |->
          <<Rd("intr_stat", stat)>>
          \o ClearIf(stat, I2cIntr_RX_UNDER, "clr_rx_under")
          \o ClearIf(stat, I2cIntr_RX_OVER, "clr_rx_over")
          \o ClearIf(stat, I2cIntr_TX_OVER, "clr_tx_over")
          \o ClearIf(stat, I2cIntr_RD_REQ, "clr_rd_req")
          \o (IF is_set(stat, I2cIntr_TX_ABRT)
              THEN <<Rd("tx_abrt_source", src), Rd("clr_tx_abrt", 0)>>
              ELSE <<>>)
          \o ClearIf(stat, I2cIntr_RX_DONE, "clr_rx_done")
          \o ClearIf(stat, I2cIntr_ACTIVITY, "clr_activity")
          \o ClearIf(stat, I2cIntr_STOP_DET, "clr_stop_det")
          \o ClearIf(stat, I2cIntr_START_DET, "clr_start_det")
          \o ClearIf(stat, I2cIntr_GEN_CALL, "clr_gen_call"),
      stat |-> stat,
      tx_abort_source |->
          IF is_set(stat, I2cIntr_TX_ABRT) THEN src ELSE NONE ]

----------------------------------------------------------------------------
(* I2c::read_poll_timeout.  polls[j] is the outcome of the j-th call of    *)
(* poll_fn: whether it returned true and the register accesses it made.    *)

\* the number of times poll_fn can be called: time = 0, sleep_us, ... <= timeout
PollMax(sleep_us, timeout) == timeout \div sleep_us + 1

RECURSIVE read_poll_loop(_, _, _, _, _, _)
read_poll_loop(polls, sleep_us, timeout, time, j, acc) ==
    IF time <= timeout
    THEN LET p == polls[j] IN
         IF p.success
         THEN [log |-> acc \o p.log, ok |-> TRUE, time |-> time, n |-> j]
         ELSE read_poll_loop(polls, sleep_us, timeout,
                             saturating_add(time, sleep_us), j + 1,
                             acc \o p.log \o <<Delay(sleep_us)>>)
    ELSE [log |-> acc, ok |-> FALSE, time |-> time, n |-> j - 1]

read_poll_timeout(polls, sleep_us, timeout) ==
    read_poll_loop(polls, sleep_us, timeout, 0, 1, <<>>)

----------------------------------------------------------------------------
(* I2c::write_msg.  txflr is the value the transmit FIFO level register    *)
(* answers.                                                                *)

\* need_restart after the iteration that looked at it
restart_after_mut(need_restart) == need_restart

restart_after(need_restart) == FALSE

\* for (i, data_byte) in buf[..len].iter().enumerate()
RECURSIVE write_loop(_, _, _, _, _, _)
write_loop(buf, len, i, need_restart, last_msg, tx_flag) ==
    IF i >= len THEN <<>>
    ELSE LET stop == IF last_msg /\ i = saturating_sub(len, 1)
                        /\ ~is_set(tx_flag, I2cMsgFlag_RECV_LEN)
                     THEN I2cDataCmd_STOP ELSE NONE
             cmd == IF need_restart THEN BitOr(stop, I2cDataCmd_RESTART)
                    ELSE stop
         IN  <<Wr("data_cmd", BitOr(cmd, I2cDataCmd_from_u8(buf[i + 1])))>>
             \o write_loop(buf, len, i + 1, restart_after(need_restart),
                           last_msg, tx_flag)

write_in_progress_mut(d, len, tx_limit) ==
    len >= tx_limit \/ is_set(d.tx_flag, I2cMsgFlag_RECV_LEN)

write_in_progress(d, len, tx_limit) ==
    len > tx_limit \/ is_set(d.tx_flag, I2cMsgFlag_RECV_LEN)

write_intr_mask_mut(d, last_msg) ==
    IF d.msg_err # 0 THEN NONE ELSE I2cInterruptMask_master

write_intr_mask(d, last_msg) ==
    IF d.msg_err # 0 THEN NONE
    ELSE IF last_msg
         THEN BitClear(I2cInterruptMask_master, I2cIntr_TX_EMPTY)
         ELSE I2cInterruptMask_master

write_msg(d, buf, last_msg, txflr) ==
    LET need_restart == ~is_set(d.status, Status_WRITE_IN_PROGRESS)
                        /\ is_set(d.master_cfg, I2cCon_RESTART_EN)
        tx_limit == saturating_sub(d.tx_fifo_depth, txflr)
        len == Min(Len(buf), tx_limit)
        d1 == IF write_in_progress(d, len, tx_limit)
              THEN [d EXCEPT
                      !.status = BitOr(@, Status_WRITE_IN_PROGRESS),
                      !.tx_outstanding = saturating_add(@, 1),
                      !.tx_buf_len = saturating_sub(len, tx_limit)]
              ELSE [d EXCEPT
                      !.status = BitClear(@, Status_WRITE_IN_PROGRESS)]
    IN  [ dev |-> d1,
          ret |-> Ok,
          log |-> <<Rd("txflr", txflr)>>
                  \o write_loop(buf, len, 0, need_restart, last_msg, d.tx_flag)
                  \o <<Wr("intr_mask", write_intr_mask(d, last_msg))>>,
          buf |-> buf ]

----------------------------------------------------------------------------
(* I2c::read_msg.  ra holds what the hardware answers during the call:     *)
(* ra.k is the first poll at which the masked status shows RX_FULL,        *)
(* ra.extra the other status bits shown at poll ra.xat, ra.src the abort   *)
(* source register, ra.rxflr the receive FIFO level and ra.data the words  *)
(* popped from the data register.                                          *)

StatAt(ra, j) ==
    BitOr(IF j = ra.k THEN I2cIntr_RX_FULL ELSE NONE,
          IF j = ra.xat THEN ra.extra ELSE NONE)

\* stat.is_set(I2cInterruptStatus::RX_FULL) on the pair read_clear_interrupt
\* returned, whose abort source is dropped
rx_full_poll(rc) ==
    [log |-> rc.log, success |-> is_set(rc.stat, I2cIntr_RX_FULL)]

read_poll_fn(ra, j) ==
    rx_full_poll(read_clear_interrupt(StatAt(ra, j), ra.src))

read_byte_mut(d, word) ==
    LET tmp == I2cDataCmd_data(bitflag_from_u32(word, I2cDataCmd_MASK))
    IN  IF is_set(d.rx_flag, I2cMsgFlag_RECV_LEN)
           /\ (tmp = 0 \/ tmp >= I2C_SMBUS_BLOCK_MAX)
        THEN 1 ELSE tmp

\* the value stored for one popped data word
read_byte(d, word) ==
    LET tmp == I2cDataCmd_data(bitflag_from_u32(word, I2cDataCmd_MASK))
    IN  IF is_set(d.rx_flag, I2cMsgFlag_RECV_LEN)
           /\ (tmp = 0 \/ tmp > I2C_SMBUS_BLOCK_MAX)
        THEN 1 ELSE tmp

read_status(d, rx_valid, len) ==
    IF rx_valid > len
    THEN [d EXCEPT !.status = BitAnd(@, Status_READ_IN_PROGRESS),
                   !.rx_buf_len = saturating_sub(rx_valid, len)]
    ELSE [d EXCEPT !.status = BitClear(@, Status_READ_IN_PROGRESS),
                   !.rx_buf_len = 0]

rx_overrun_mut(d) == d.rx_outstanding > d.rx_fifo_depth

\* Avoid RX buffer overrun
rx_overrun(d) == d.rx_outstanding >= d.rx_fifo_depth

read_cmd(d) ==
    IF is_set(d.master_cfg, I2cCon_RESTART_EN)
    THEN BitOr(I2cDataCmd_READ, I2cDataCmd_RESTART)
    ELSE I2cDataCmd_READ

drain_len_mut(buf, rx_valid) == Len(buf)

\* let len = cmp::min(buf.len(), rx_valid)
drain_len(buf, rx_valid) == Min(Len(buf), rx_valid)

\* read_msg from the `?` on the poll onwards; poll is what the poll returned
read_after_poll(d, buf, ra, poll) ==
    LET rx_valid == ra.rxflr
        len == drain_len(buf, rx_valid)
    IN  IF ~poll.ok
        THEN [dev |-> d,
              ret |-> Err("Other"),
              log |-> <<Wr("data_cmd", read_cmd(d))>> \o poll.log,
              buf |-> buf]
        ELSE [dev |-> read_status(d, rx_valid, len),
              ret |-> Ok,
              log |-> <<Wr("data_cmd", read_cmd(d))>> \o poll.log
                      \o <<Rd("rxflr", rx_valid)>>
                      \o [i \in 1..len |-> Rd("data_cmd", ra.data[i])],
              buf |-> [i \in 1..Len(buf) |->
                         IF i <= len THEN read_byte(d, ra.data[i])
                         ELSE buf[i]]]

read_msg(d, buf, ra) ==
    IF rx_overrun(d)
    THEN [dev |-> d, ret |-> Err("Overrun"), log |-> <<>>, buf |-> buf]
    ELSE read_after_poll(d, buf, ra,
            read_poll_timeout(
                [j \in 1..PollMax(10, 100) |-> read_poll_fn(ra, j)], 10, 100))

----------------------------------------------------------------------------
(* I2c::configure_master, I2c::configure_fifo_master *)

\* mode.rs: the frequencies of the named speed modes, in Hz
I2C_SPEED_MODE_STD == 100000
I2C_SPEED_MODE_FAST == 400000
I2C_SPEED_MODE_FAST_PLUS == 1000000
I2C_SPEED_MODE_TURBO == 1400000
I2C_SPEED_MODE_HIGH == 3400000
I2C_SPEED_MODE_ULTRA_FAST == 5000000

\* I2cSpeedMode::create, reached through From<u32> for I2cSpeedMode
I2cSpeedMode_create(val) ==
    CASE val = I2C_SPEED_MODE_STD -> "Standard"
      [] val = I2C_SPEED_MODE_FAST -> "Fast"
      [] val = I2C_SPEED_MODE_FAST_PLUS -> "FastPlus"
      [] val = I2C_SPEED_MODE_TURBO -> "Turbo"
      [] val = I2C_SPEED_MODE_HIGH -> "High"
      [] val = I2C_SPEED_MODE_ULTRA_FAST -> "UltraFast"
      [] OTHER -> "Standard"

\* I2cTimings::set_bus_freq_hz on the timings of the engine
set_bus_freq_hz(d, val) ==
    [d EXCEPT !.bus_freq_hz = I2cSpeedMode_create(val)]

speed_bits(bus_freq_hz) ==
    CASE bus_freq_hz = "Standard" -> I2cCon_SPEED_STD
      [] bus_freq_hz = "High" -> I2cCon_SPEED_HIGH
      [] OTHER -> I2cCon_SPEED_FAST

configure_master(d) ==
    [d EXCEPT
       !.functionality = BitOr(I2cFunc_ADDRESS_10BIT, I2cFunc_default),
       !.master_cfg =
           BitOr(BitOr(BitOr(I2cCon_MASTER, I2cCon_SLAVE_DISABLE),
                       I2cCon_RESTART_EN),
                 speed_bits(d.bus_freq_hz)),
       !.mode = "Master"]

configure_fifo_master(d) ==
    << Wr("tx_tl", d.tx_fifo_depth \div 2),
       Wr("rx_tl", 0),
       Wr("con", d.master_cfg) >>

----------------------------------------------------------------------------
(* I2c::__disable.  da holds what the hardware answers: da.raw the raw     *)
(* interrupt status, da.en the enable register at the first read, da.aK    *)
(* the first abort poll at which the enable register shows ABORT, da.actK  *)
(* the first iteration at which enable-status shows ACTIVITY.              *)

DisableTimeout == 100

abort_poll_fn(da, j) ==
    LET en == IF j = da.aK THEN I2cEnable_ABORT ELSE NONE
    IN  [log |-> <<Rd("enable", en)>>, success |-> is_set(en, I2cEnable_ABORT)]

\* what enable-status answers at iteration it of the second stage
enable_status_at(da, it) ==
    IF it = da.actK THEN I2cEnableStatus_ACTIVITY ELSE NONE

\* the iteration at which the loop returns (DisableTimeout if it never does)
disable_returns_at(da) ==
    IF \E it \in 1..DisableTimeout :
          is_set(enable_status_at(da, it), I2cEnableStatus_ACTIVITY)
    THEN CHOOSE it \in 1..DisableTimeout :
          /\ is_set(enable_status_at(da, it), I2cEnableStatus_ACTIVITY)
          /\ \A e \in 1..(it - 1) :
                ~is_set(enable_status_at(da, e), I2cEnableStatus_ACTIVITY)
    ELSE DisableTimeout

\* for _ in (0..timeout).rev(): each iteration writes enable = NONE, reads
\* enable-status, returns if ACTIVITY is set and otherwise sleeps 25 us
disable_steps(da, last) ==
    [i \in 1..(IF is_set(enable_status_at(da, last), I2cEnableStatus_ACTIVITY)
               THEN 3 * (last - 1) + 2 ELSE 3 * last) |->
        CASE (i - 1) % 3 = 0 -> Wr("enable", NONE)
          [] (i - 1) % 3 = 1 ->
                Rd("enable_status", enable_status_at(da, (i - 1) \div 3 + 1))
          [] OTHER -> Delay(25)]

disable_loop(da) == disable_steps(da, disable_returns_at(da))

disable_after_abort_mut(da, poll) ==
    IF ~poll.ok THEN poll.log \o <<Wr("enable", I2cEnable_ABORT)>>
    ELSE poll.log \o disable_loop(da)

\* __disable after the abort was requested; poll is what the poll returned
disable_after_abort(da, poll) ==
    IF ~poll.ok THEN poll.log ELSE poll.log \o disable_loop(da)

__disable(da) ==
    <<Rd("raw_intr_stat", da.raw), Rd("enable", da.en)>>
    \o (IF is_set(da.raw, I2cIntr_MST_ON_HOLD)
           /\ ~is_set(da.en, I2cEnable_ABORT)
        THEN <<Wr("enable", I2cEnable_ABORT)>>
             \o disable_after_abort(da,
                    read_poll_timeout(
                        [j \in 1..PollMax(10, 100) |-> abort_poll_fn(da, j)],
                        10, 100))
        ELSE disable_loop(da))

----------------------------------------------------------------------------
(* I2c::init_master, I2c::xfer_init *)

init_master_mut(d, da) ==
    __disable(da)
    \o << Wr("ss_scl_hcnt", d.ss_hcnt), Wr("ss_scl_lcnt", d.ss_lcnt),
          Wr("fs_scl_hcnt", d.fs_hcnt), Wr("fs_scl_lcnt", d.fs_lcnt) >>
    \o (IF d.hs_hcnt # 0 \/ d.hs_lcnt # 0
        THEN <<Wr("hs_scl_hcnt", d.hs_hcnt), Wr("hs_scl_lcnt", d.hs_lcnt)>>
        ELSE <<>>)
    \o (IF d.sda_hold_time # 0
        THEN <<Wr("sda_hold", d.sda_hold_time)>> ELSE <<>>)
    \o configure_fifo_master(d)

init_master(d, da) ==
    __disable(da)
    \o << Wr("ss_scl_hcnt", d.ss_hcnt), Wr("ss_scl_lcnt", d.ss_lcnt),
          Wr("fs_scl_hcnt", d.fs_hcnt), Wr("fs_scl_lcnt", d.fs_lcnt) >>
    \o (IF d.hs_hcnt # 0 /\ d.hs_lcnt # 0
        THEN <<Wr("hs_scl_hcnt", d.hs_hcnt), Wr("hs_scl_lcnt", d.hs_lcnt)>>
        ELSE <<>>)
    \o (IF d.sda_hold_time # 0
        THEN <<Wr("sda_hold", d.sda_hold_time)>> ELSE <<>>)
    \o configure_fifo_master(d)

xfer_init_mut(tar, da) ==
    __disable(da)
    \o << Wr("con", IF is_set(tar, I2cTar_MODE_10BIT)
                    THEN I2cCon_MASTER_10BIT ELSE NONE),
          Wr("tar", tar),
          Wr("enable", I2cEnable_ENABLE),
          Wr("intr_mask", NONE),
          Rd("enable_status", 0),
          Rd("clr_intr", 0),
          Wr("intr_mask", I2cInterruptMask_master) >>

xfer_init(tar, da) ==
    __disable(da)
    \o << Wr("con", IF is_set(tar, I2cTar_MODE_10BIT)
                    THEN I2cCon_MASTER_10BIT ELSE NONE),
          Wr("tar", tar),
          Wr("intr_mask", NONE),
          Wr("enable", I2cEnable_ENABLE),
          Rd("enable_status", 0),
          Rd("clr_intr", 0),
          Wr("intr_mask", I2cInterruptMask_master) >>

----------------------------------------------------------------------------
(* I2cHal::transaction for SevenBitAddress and TenBitAddress.  An operation *)
(* is [kind, buf]; hw.txflr and hw.ra are what the hardware answers to the  *)
(* write path and to the read path, hw.da what it answers to __disable.     *)

tar_7bit(address) == bitflag_from_u32(address, I2cTar_MASK)

tar_10bit(address) ==
    BitOr(bitflag_from_u32(address, I2cTar_MASK), I2cTar_MODE_10BIT)

count_writes(ops) == Cardinality({i \in 1..Len(ops) : ops[i].kind = "Write"})

SubCall(fn, i, buf, last_msg, r) ==
    [ret |-> r.ret, log |-> r.log, op |-> i, buf |-> buf,
     last_msg |-> last_msg, fn |-> fn]

propagates_mut(r) == ~r.ret.ok /\ r.ret.err # "Overrun"

\* the `?` on the result of the read path / write path
propagates(r) == ~r.ret.ok

RECURSIVE walk(_, _, _, _, _, _, _)

\* the loop body once the read path or write path returned r for operation
\* i; cs and bs already hold the sub-call and the buffer it left
walk_after(r, ops, i, writes, hw, cs, bs) ==
    IF propagates(r)
    THEN [dev |-> r.dev, ret |-> r.ret, calls |-> cs, bufs |-> bs]
    ELSE walk(r.dev, ops, i + 1, writes, hw, cs, bs)

walk_read(r, ops, i, writes, hw, cs, bs) ==
    walk_after(r, ops, i, writes, hw,
               Append(cs, SubCall("read_msg", i, ops[i].buf, FALSE, r)),
               [bs EXCEPT ![i] = r.buf])

walk_write(r, ops, i, writes, hw, cs, bs) ==
    walk_after(r, ops, i, writes, hw,
               Append(cs, SubCall("write_msg", i, ops[i].buf, writes = 0, r)),
               bs)

walk(d, ops, i, writes, hw, cs, bs) ==
    IF i > Len(ops)
    THEN [dev |-> d, ret |-> Ok, calls |-> cs, bufs |-> bs]
    ELSE IF ops[i].kind = "Read"
    THEN walk_read(read_msg(d, ops[i].buf, hw.ra),
                   ops, i, writes, hw, cs, bs)
    ELSE walk_write(write_msg(d, ops[i].buf, saturating_sub(writes, 1) = 0,
                              hw.txflr),
                    ops, i, saturating_sub(writes, 1), hw, cs, bs)

RECURSIVE FlatLog(_)
FlatLog(cs) == IF cs = <<>> THEN <<>> ELSE Head(cs).log \o FlatLog(Tail(cs))

\* what a transaction leaves: w is the outcome of the walk
transaction_result(w, tar, hw) ==
    [dev |-> w.dev, ret |-> w.ret,
     log |-> xfer_init(tar, hw.da) \o FlatLog(w.calls),
     calls |-> w.calls, bufs |-> w.bufs]

transaction(d, tar, ops, hw) ==
    transaction_result(
        walk(d, ops, 1, count_writes(ops), hw, <<>>,
             [i \in 1..Len(ops) |-> ops[i].buf]),
        tar, hw)

----------------------------------------------------------------------------
(* Inputs: arguments of the calls and answers of the hardware *)

\* raw words the receive FIFO answers: first word w0, then w0 + 7, ...
DataStarts == {0, 1, 32, 33, 255, 427}
DataWords(w0) == [i \in 1..(MaxLen + 1) |-> (w0 + 7 * (i - 1)) % 4096]

PollKs == {1, 2, PollMax(10, 100), PollMax(10, 100) + 1}

AbortSrcs ==
    {I2cTxAbortSource_B7_ADDR_NOACK, I2cTxAbortSource_TXDATA_NOACK,
     I2cTxAbortSource_ARB_LOST}

NoExtra == [src |-> NONE, xat |-> 1, extra |-> NONE]

\* the first status read shows a transmit abort for an unacknowledged address
AddrNoAck ==
    [src |-> I2cTxAbortSource_B7_ADDR_NOACK, xat |-> 1,
     extra |-> I2cIntr_TX_ABRT]

Extras ==
    {NoExtra, [src |-> NONE, xat |-> 1, extra |-> I2cIntr_STOP_DET]}
    \cup {[src |-> s, xat |-> 1, extra |-> I2cIntr_TX_ABRT] : s \in AbortSrcs}

ReadAnswer(k, x, rxflr, w0) ==
    [src |-> x.src, k |-> k, xat |-> x.xat, extra |-> x.extra,
     rxflr |-> rxflr, data |-> DataWords(w0)]

NeverFull(x) == ReadAnswer(PollMax(10, 100) + 1, x, 0, 0)

ReadAnswers ==
    {ReadAnswer(k, NoExtra, n, w0) :
        k \in PollKs \ {PollMax(10, 100) + 1},
        n \in 0..(MaxFifo + 1), w0 \in DataStarts}
    \cup {ReadAnswer(k, x, n, 1) :
            k \in PollKs \ {PollMax(10, 100) + 1}, x \in Extras,
            n \in {1, MaxFifo + 1}}
    \cup {NeverFull(x) : x \in Extras}

\* the answers tried inside transactions
TxnReadAnswers ==
    {ReadAnswer(1, NoExtra, n, 1) : n \in {1, MaxFifo + 1}}
    \cup {NeverFull(NoExtra)}

DisableAnswer(raw, en, aK, actK) ==
    [en |-> en, aK |-> aK, actK |-> actK, raw |-> raw]

DisableAnswers ==
    {DisableAnswer(raw, en, 1, actK) :
        raw \in {NONE}, en \in {I2cEnable_ENABLE},
        actK \in {1, 2, DisableTimeout, DisableTimeout + 1}}
    \cup {DisableAnswer(I2cIntr_MST_ON_HOLD,
                        BitOr(I2cEnable_ENABLE, I2cEnable_ABORT), 1, actK) :
            actK \in {1, 2}}
    \cup {DisableAnswer(I2cIntr_MST_ON_HOLD, I2cEnable_ENABLE, aK, actK) :
            aK \in PollKs, actK \in {1, 2}}

Bufs(n) == [1..n -> {1, 255}]

\* a read buffer of n bytes, filled with 0xAA before the call
ReadOp(n) == [buf |-> [i \in 1..n |-> 170], kind |-> "Read"]
WriteOp(buf) == [buf |-> buf, kind |-> "Write"]

\* operation lists: every sequence of kinds up to MaxOps long, all buffers
\* of one length, the bytes of the write buffers numbered 1, 2, 3, ...
WritesBefore(kinds, i) == Cardinality({j \in 1..(i - 1) : kinds[j] = "Write"})

MkOps(kinds, n) ==
    [i \in 1..Len(kinds) |->
        IF kinds[i] = "Read" THEN ReadOp(n)
        ELSE WriteOp([b \in 1..n |-> WritesBefore(kinds, i) * n + b])]

ExampleOps == <<WriteOp(<<1>>), ReadOp(2), WriteOp(<<2, 3>>)>>

OpLists ==
    {MkOps(kinds, n) :
        kinds \in UNION {[1..m -> {"Read", "Write"}] : m \in 0..MaxOps},
        n \in 0..MaxLen}
    \cup {ExampleOps}

Addresses7 == {80, 208}
Addresses10 == {291, 1315}
Tars == {80, 208, 291, 4096 + 291}

HasKind(ops, kind) == \E i \in 1..Len(ops) : ops[i].kind = kind

TxnAnswers(ops) ==
    [txflr : IF HasKind(ops, "Write") THEN {0, 1} ELSE {0},
     ra : IF HasKind(ops, "Read") THEN TxnReadAnswers
          ELSE {NeverFull(NoExtra)},
     da : {DisableAnswer(NONE, I2cEnable_ENABLE, 1, 1)}]
    \cup
    [txflr : {0},
     ra : {ReadAnswer(1, NoExtra, MaxFifo + 1, 1),
           ReadAnswer(1, AddrNoAck, 1, 1)},
     da : {DisableAnswer(I2cIntr_MST_ON_HOLD, I2cEnable_ENABLE, 1, 2)}]

----------------------------------------------------------------------------
(* State machine *)

NoAnswers ==
    [txflr |-> 0, ra |-> NeverFull(NoExtra),
     da |-> DisableAnswer(NONE, NONE, 1, 1)]

Call(fn, address, ops, last_msg, hw) ==
    [last_msg |-> last_msg, address |-> address, ops |-> ops, fn |-> fn,
     hw |-> hw]

NoCall == Call("none", 0, <<>>, FALSE, NoAnswers)
NoRet == [val |-> <<>>, ok |-> TRUE, err |-> "idle"]

NextSetup(s, fn) ==
    CASE fn = "configure_master" /\ s = "new" -> "configured"
      [] fn = "init_master" /\ s = "configured" -> "ready"
      [] OTHER -> s

\* a call returns: the engine, the trace of the call and its result
Returns(c, t) ==
    /\ pc = "idle"
    /\ dev.tx_outstanding + count_writes(c.ops) <= MaxOutstanding
    /\ pc' = "done"
    /\ call' = c
    /\ pre' = dev
    /\ dev' = t.dev
    /\ ret' = t.ret
    /\ log' = t.log
    /\ calls' = t.calls
    /\ bufs' = t.bufs
    /\ setup' = NextSetup(setup, c.fn)

\* the outcome of a call that makes no sub-calls
Outcome(d, r, l, bs) ==
    [dev |-> d, ret |-> r, log |-> l, calls |-> <<>>, bufs |-> bs]

\* the outcome of read_clear_interrupt, which returns the pair rc
ClearOutcome(d, rc) ==
    Outcome(d, Value(<<rc.stat, rc.tx_abort_source>>), rc.log, <<>>)

\* the outcome of write_msg / read_msg called directly
MsgOutcome(r) == Outcome(r.dev, r.ret, r.log, <<r.buf>>)

ConfigureMaster ==
    Returns(Call("configure_master", 0, <<>>, FALSE, NoAnswers),
            Outcome(configure_master(dev), Ok, <<>>, <<>>))

ConfigureFifoMaster ==
    Returns(Call("configure_fifo_master", 0, <<>>, FALSE, NoAnswers),
            Outcome(dev, Ok, configure_fifo_master(dev), <<>>))

InitMaster ==
    \E da \in DisableAnswers :
        Returns(Call("init_master", 0, <<>>, FALSE,
                     [NoAnswers EXCEPT !.da = da]),
                Outcome(dev, Ok, init_master(dev, da), <<>>))

XferInit ==
    \E tar \in Tars, da \in DisableAnswers :
        Returns(Call("xfer_init", tar, <<>>, FALSE,
                     [NoAnswers EXCEPT !.da = da]),
                Outcome(dev, Ok, xfer_init(tar, da), <<>>))

WriteMsg ==
    \E n \in 0..(MaxLen + 1) : \E buf \in Bufs(n) :
    \E last_msg \in BOOLEAN, txflr \in 0..MaxFifo :
        Returns(Call("write_msg", 0, <<WriteOp(buf)>>, last_msg,
                     [NoAnswers EXCEPT !.txflr = txflr]),
                MsgOutcome(write_msg(dev, buf, last_msg, txflr)))

ReadMsg ==
    \E n \in 0..(MaxLen + 1) :
    \E ra \in IF dev.rx_outstanding >= dev.rx_fifo_depth
              THEN {NeverFull(NoExtra)} ELSE ReadAnswers :
        Returns(Call("read_msg", 0, <<ReadOp(n)>>, FALSE,
                     [NoAnswers EXCEPT !.ra = ra]),
                MsgOutcome(read_msg(dev, ReadOp(n).buf, ra)))

Transaction7 ==
    \E address \in Addresses7, ops \in OpLists : \E hw \in TxnAnswers(ops) :
        Returns(Call("transaction7", address, ops, FALSE, hw),
                transaction(dev, tar_7bit(address), ops, hw))

Transaction10 ==
    \E address \in Addresses10, ops \in OpLists : \E hw \in TxnAnswers(ops) :
        Returns(Call("transaction10", address, ops, FALSE, hw),
                transaction(dev, tar_10bit(address), ops, hw))

\* the caller takes the result; the trace of the finished call is dropped
Return ==
    /\ pc = "done"
    /\ pc' = "idle"
    /\ call' = NoCall
    /\ pre' = dev
    /\ ret' = NoRet
    /\ log' = <<>>
    /\ calls' = <<>>
    /\ bufs' = <<>>
    /\ UNCHANGED <<dev, setup>>

Handlers ==
    \/ ConfigureMaster
    \/ ConfigureFifoMaster
    \/ InitMaster
    \/ XferInit
    \/ WriteMsg
    \/ ReadMsg
    \/ Transaction7
    \/ Transaction10

Next == Handlers \/ Return

Idle(d) ==
    /\ dev = d
    /\ pre = d
    /\ setup = "new"
    /\ pc = "idle"
    /\ call = NoCall
    /\ ret = NoRet
    /\ log = <<>>
    /\ calls = <<>>
    /\ bufs = <<>>

\* the program: the engine as I2c::new builds it
Init == Idle(I2c_new)

Spec == Init /\ [][Next]_vars

\* the engine with its fields drawn from bounded sets, for the contracts of
\* the read path and the write path, which are stated over every value of
\* the fields
FieldVariants ==
    { [status |-> NONE, tx_flag |-> NONE, rx_flag |-> NONE, msg_err |-> 0],
      [status |-> Status_WRITE_IN_PROGRESS, tx_flag |-> NONE,
       rx_flag |-> NONE, msg_err |-> 0],
      [status |-> BitOr(Status_ACTIVE, Status_READ_IN_PROGRESS),
       tx_flag |-> NONE, rx_flag |-> NONE, msg_err |-> 0],
      [status |-> NONE, tx_flag |-> I2cMsgFlag_RECV_LEN, rx_flag |-> NONE,
       msg_err |-> 0],
      [status |-> Status_WRITE_IN_PROGRESS, tx_flag |-> NONE,
       rx_flag |-> I2cMsgFlag_RECV_LEN, msg_err |-> 1],
      [status |-> Status_MASK, tx_flag |-> I2cMsgFlag_RECV_LEN,
       rx_flag |-> I2cMsgFlag_RECV_LEN, msg_err |-> 0] }

FieldStates ==
    {[I2c_new EXCEPT
        !.tx_fifo_depth = td, !.rx_fifo_depth = rx[1],
        !.rx_outstanding = rx[2], !.status = v.status,
        !.tx_flag = v.tx_flag, !.rx_flag = v.rx_flag,
        !.msg_err = v.msg_err, !.master_cfg = cfg] :
        td \in 0..MaxFifo,
        rx \in {<<0, 0>>, <<MaxFifo, 0>>, <<MaxFifo, MaxFifo>>},
        v \in FieldVariants,
        cfg \in {NONE, configure_master(I2c_new).master_cfg}}

InitFields == \E d \in FieldStates : Idle(d)

MsgHandlers ==
    \/ WriteMsg
    \/ ReadMsg
    \/ Transaction7
    \/ Transaction10

SpecFields == InitFields /\ [][MsgHandlers]_vars

\* the register access trait on its own: read_clear_interrupt called on the
\* peripheral, with every status value and abort source of StatusValues and
\* SourceValues as the answers of the hardware
StatusBits ==
    {I2cIntr_RX_UNDER, I2cIntr_RX_OVER, I2cIntr_RX_FULL, I2cIntr_TX_OVER,
     I2cIntr_TX_EMPTY, I2cIntr_RD_REQ, I2cIntr_TX_ABRT, I2cIntr_RX_DONE,
     I2cIntr_ACTIVITY, I2cIntr_STOP_DET, I2cIntr_START_DET, I2cIntr_GEN_CALL,
     I2cIntr_RESTART_DET, I2cIntr_MST_ON_HOLD}

StatusValues ==
    {NONE, I2cIntr_MASK} \cup StatusBits
    \cup {BitOr(I2cIntr_TX_ABRT, b) : b \in StatusBits}
    \cup {BitClear(I2cIntr_MASK, b) : b \in StatusBits}

SourceValues == {NONE} \cup AbortSrcs

ReadClearInterrupt ==
    \E stat \in StatusValues, src \in SourceValues :
        Returns(Call("read_clear_interrupt", 0, <<>>, FALSE,
                     [NoAnswers EXCEPT
                        !.ra = NeverFull([src |-> src, xat |-> 1,
                                          extra |-> stat])]),
                ClearOutcome(dev, read_clear_interrupt(stat, src)))

PeripheralHandlers == ReadClearInterrupt \/ Return

\* From<u32> of the register bitfield types.  A u32 is held as the pair of
\* its 16-bit halves <<high, low>>; the result is the content of the tuple
\* struct, which bits() returns.
BitfieldMasks ==
    [I2cCon |-> I2cCon_MASK,
     I2cRawInterruptStatus |-> I2cIntr_MASK,
     I2cInterruptStatus |-> I2cIntr_MASK,
     I2cInterruptMask |-> I2cIntr_MASK,
     I2cClearInterrupt |-> I2cIntr_MASK,
     I2cTar |-> I2cTar_MASK,
     I2cSar |-> I2cSar_MASK,
     I2cEnable |-> I2cEnable_MASK,
     I2cEnableStatus |-> I2cEnableStatus_MASK,
     I2cDataCmd |-> I2cDataCmd_MASK,
     I2cTxAbortSource |-> I2cTxAbortSource_MASK]

BitfieldTypes == DOMAIN BitfieldMasks

Halves(n) == <<n \div 65536, n % 65536>>

from_u32(ty, v) ==
    << bitflag_from_u32(v[1], Halves(BitfieldMasks[ty])[1]),
       bitflag_from_u32(v[2], Halves(BitfieldMasks[ty])[2]) >>

RawHalves == {0, 1, 255, 4096, 5119, 16383, 32768, 65215, 65535}
RawValues == RawHalves \X RawHalves

FromU32 ==
    \E ty \in BitfieldTypes, v \in RawValues :
        Returns(Call(ty, v, <<>>, FALSE, NoAnswers),
                Outcome(dev, Value(from_u32(ty, v)), <<>>, <<>>))

BitfieldHandlers == FromU32 \/ Return

SpecBitfields == Init /\ [][BitfieldHandlers]_vars

\* impl_i2c_peripheral!: the accessors of the register access capability,
\* each with the register of the register block its body accesses and, for
\* the get accessors, the type it returns
Getters ==
    {<<"get_con", "con", "I2cCon">>, <<"get_tar", "tar", "I2cTar">>,
     <<"get_sar", "sar", "I2cSar">>, <<"get_tx_tl", "tx_tl", "u32">>,
     <<"get_rx_tl", "rx_tl", "u32">>,
     <<"get_ss_scl_hcnt", "ss_scl_hcnt", "u32">>,
     <<"get_ss_scl_lcnt", "ss_scl_lcnt", "u32">>,
     <<"get_fs_scl_hcnt", "fs_scl_hcnt", "u32">>,
     <<"get_fs_scl_lcnt", "fs_scl_lcnt", "u32">>,
     <<"get_hs_scl_hcnt", "hs_scl_hcnt", "u32">>,
     <<"get_hs_scl_lcnt", "hs_scl_lcnt", "u32">>,
     <<"get_sda_hold", "hs_scl_lcnt", "u32">>,
     <<"get_raw_interrupt_stat", "raw_intr_stat", "I2cRawInterruptStatus">>,
     <<"get_interrupt_stat", "intr_stat", "I2cInterruptStatus">>,
     <<"get_interrupt_mask", "intr_mask", "I2cInterruptMask">>,
     <<"get_clear_interrupt", "clr_intr", "I2cClearInterrupt">>,
     <<"get_clear_rx_under", "clr_rx_under", "u32">>,
     <<"get_clear_rx_over", "clr_rx_over", "u32">>,
     <<"get_clear_tx_over", "clr_tx_over", "u32">>,
     <<"get_clear_rd_req", "clr_rd_req", "u32">>,
     <<"get_clear_tx_abort", "clr_tx_abrt", "u32">>,
     <<"get_clear_rx_done", "clr_rx_done", "u32">>,
     <<"get_clear_activity", "clr_activity", "u32">>,
     <<"get_clear_stop_det", "clr_stop_det", "u32">>,
     <<"get_clear_start_det", "clr_start_det", "u32">>,
     <<"get_clear_gen_call", "clr_gen_call", "u32">>,
     <<"get_enable", "clr_gen_call", "I2cEnable">>,
     <<"get_enable_status", "enable_status", "I2cEnableStatus">>,
     <<"get_txflr", "txflr", "u32">>, <<"get_rxflr", "rxflr", "u32">>,
     <<"get_data_cmd", "data_cmd", "I2cDataCmd">>,
     <<"get_tx_abort_source", "tx_abrt_source", "I2cTxAbortSource">>}

Setters ==
    {<<"set_con", "con">>, <<"set_tar", "tar">>,
     <<"set_sar", "sar">>, <<"set_tx_tl", "tx_tl">>,
     <<"set_rx_tl", "rx_tl">>,
     <<"set_ss_scl_hcnt", "ss_scl_hcnt">>,
     <<"set_ss_scl_lcnt", "ss_scl_lcnt">>,
     <<"set_fs_scl_hcnt", "fs_scl_hcnt">>,
     <<"set_fs_scl_lcnt", "fs_scl_lcnt">>,
     <<"set_hs_scl_hcnt", "hs_scl_hcnt">>,
     <<"set_hs_scl_lcnt", "hs_scl_lcnt">>,
     <<"set_sda_hold", "sda_hold">>,
     <<"set_interrupt_mask", "intr_mask">>,
     <<"set_clear_interrupt", "clr_intr">>,
     <<"set_enable", "enable">>,
     <<"set_enable_status", "enable">>,
     <<"set_txflr", "txflr">>, <<"set_rxflr", "rxflr">>,
     <<"set_data_cmd", "data_cmd">>}

\* the registers of the register block the accessors reach
RegisterSeq ==
    <<"con", "tar", "sar", "tx_tl", "rx_tl", "ss_scl_hcnt", "ss_scl_lcnt",
      "fs_scl_hcnt", "fs_scl_lcnt", "hs_scl_hcnt", "hs_scl_lcnt",
      "sda_hold", "raw_intr_stat", "intr_stat", "intr_mask", "clr_intr",
      "clr_rx_under", "clr_rx_over", "clr_tx_over", "clr_rd_req",
      "clr_tx_abrt", "clr_rx_done", "clr_activity", "clr_stop_det",
      "clr_start_det", "clr_gen_call", "enable", "enable_status", "txflr",
      "rxflr", "data_cmd", "tx_abrt_source">>

Registers == {RegisterSeq[i] : i \in 1..Len(RegisterSeq)}

RegIndex(r) == CHOOSE i \in 1..Len(RegisterSeq) : RegisterSeq[i] = r

\* the seven controller instances I2C0..I2C6
Instances == 0..6

\* contents of the register block before the call
RegisterFiles ==
    {[r \in Registers |-> 64 * RegIndex(r) + 3],
     [r \in Registers |-> 65535 - 64 * RegIndex(r)]}

\* a get accessor: one read of the register, converted to the return type
get_accessor(a, regs) ==
    [log |-> <<Rd(a[2], regs[a[2]])>>,
     val |-> IF a[3] = "u32" THEN regs[a[2]]
             ELSE bitflag_from_u32(regs[a[2]], BitfieldMasks[a[3]])]

\* a set accessor: one write of the bits of the value to the register
set_accessor(a, v) == <<Wr(a[2], v)>>

GetAccessor ==
    \E a \in Getters, n \in Instances, regs \in RegisterFiles :
        Returns(Call(a[1], n, <<>>, FALSE, [v |-> 0, regs |-> regs]),
                Outcome(dev, Value(<<get_accessor(a, regs).val>>),
                        get_accessor(a, regs).log, <<>>))

SetAccessor ==
    \E a \in Setters, n \in Instances, regs \in RegisterFiles :
    \E v \in {0, 3} :
        Returns(Call(a[1], n, <<>>, FALSE, [v |-> v, regs |-> regs]),
                Outcome(dev, Ok, set_accessor(a, v), <<>>))

AccessorHandlers == GetAccessor \/ SetAccessor \/ Return

SpecAccessors == Init /\ [][AccessorHandlers]_vars

\* interrupt::disable, interrupt::enable, interrupt::free and the
\* critical-section implementation built on them.  In this specification
\* dev is the machine: the interrupt-enable bit of mstatus and the 25 PLIC
\* enable registers, enable_x_y at index x + 5 * y.  A u64 of the restore
\* state is held as the pair of its 32-bit halves <<high, low>>.
MaxNest == 2

PlicRegs == 0..24
PlicReset == 0

interrupt_disable(m) ==
    [restore |->
        [j \in 0..15 |->
            IF j < 12 THEN <<m.plic[2 * j + 1], m.plic[2 * j]>>
            ELSE IF j = 12 THEN <<m.mie, m.plic[24]>>
            ELSE <<0, 0>>],
     machine |-> [plic |-> [n \in PlicRegs |-> PlicReset], mie |-> 0]]

interrupt_enable(m, restore) ==
    IF restore[12][1] % 2 # 0
    THEN [plic |-> [n \in PlicRegs |->
                      IF n % 2 = 0 THEN restore[n \div 2][2]
                      ELSE restore[n \div 2][1]],
          mie |-> 1]
    ELSE m

Machines ==
    {[plic |-> [n \in PlicRegs |-> IF n = k THEN v ELSE w], mie |-> e] :
        e \in {0, 1}, k \in PlicRegs, v \in {1, 65535}, w \in {0, 7}}

\* free calls disable and then runs f; acquire calls disable
Enter ==
    \E fn \in {"free", "acquire"} :
        /\ pc \in {"idle", "f"}
        /\ Len(calls) < MaxNest
        /\ dev' = interrupt_disable(dev).machine
        /\ calls' = Append(calls,
                       [fn |-> fn, restore |-> interrupt_disable(dev).restore,
                        before |-> dev])
        /\ pc' = "f"
        /\ call' = Call(fn, Len(calls) + 1, <<>>, FALSE, NoAnswers)
        /\ pre' = dev
        /\ ret' = NoRet
        /\ UNCHANGED <<setup, log, bufs>>

\* f has returned and free calls enable; release calls enable
Leave ==
    /\ pc = "f"
    /\ calls # <<>>
    /\ dev' = interrupt_enable(dev, calls[Len(calls)].restore)
    /\ calls' = SubSeq(calls, 1, Len(calls) - 1)
    /\ pc' = IF Len(calls) = 1 THEN "done" ELSE "f"
    /\ call' = Call(IF calls[Len(calls)].fn = "free" THEN "free"
                    ELSE "release", Len(calls), <<>>, FALSE, NoAnswers)
    /\ pre' = calls[Len(calls)].before
    /\ ret' = Ok
    /\ UNCHANGED <<setup, log, bufs>>

InitInterrupt == \E m \in Machines : Idle(m)

InterruptHandlers == Enter \/ Leave \/ Return

SpecInterrupt == InitInterrupt /\ [][InterruptHandlers]_vars

\* UartRx::read_bytes over Serial::read_byte.  An answer is what one
\* read_byte call returns: Ok(val) when the line status shows data ready,
\* WouldBlock when it does not, Other for a Serial implementation that
\* reports an error.
Received(b) == [val |-> b, kind |-> "Ok"]
WouldBlock == [val |-> 0, kind |-> "WouldBlock"]
ReadOverrun == [val |-> 0, kind |-> "Other"]

SerialAnswers == {Received(17), Received(34), WouldBlock, ReadOverrun}

\* for byte in buf.iter_mut(): slot i of buf takes the answer ans[i]
RECURSIVE read_bytes_from(_, _, _, _)
read_bytes_from(buf, ans, i, count) ==
    IF i > Len(buf) THEN [ret |-> Value(<<count>>), buf |-> buf]
    ELSE IF ans[i].kind = "Ok"
    THEN read_bytes_from([buf EXCEPT ![i] = ans[i].val], ans, i + 1,
                         count + 1)
    ELSE IF ans[i].kind = "WouldBlock"
    THEN IF count > 0 THEN [ret |-> Value(<<count>>), buf |-> buf]
         ELSE read_bytes_from(buf, ans, i + 1, count)
    ELSE [ret |-> Err("ReadOverrun"), buf |-> buf]

read_bytes(buf, ans) == read_bytes_from(buf, ans, 1, 0)

UartOutcome(r) == Outcome(dev, r.ret, <<>>, <<r.buf>>)

ReadBytes ==
    \E n \in 0..(MaxLen + 2) : \E ans \in [1..n -> SerialAnswers] :
        Returns(Call("read_bytes", 0, <<ReadOp(n)>>, FALSE, ans),
                UartOutcome(read_bytes(ReadOp(n).buf, ans)))

UartHandlers == ReadBytes \/ Return

SpecUart == Init /\ [][UartHandlers]_vars

\* the set-up calls, from an engine whose clock counts, SDA hold time,
\* transmit depth, control word and bus frequency are drawn from bounded
\* sets
Frequencies ==
    {I2C_SPEED_MODE_STD, I2C_SPEED_MODE_FAST, I2C_SPEED_MODE_FAST_PLUS,
     I2C_SPEED_MODE_TURBO, I2C_SPEED_MODE_HIGH, I2C_SPEED_MODE_ULTRA_FAST,
     0, 200000, I2C_SPEED_MODE_HIGH + 1}

SetBusFreqHz ==
    \E val \in Frequencies :
        Returns(Call("set_bus_freq_hz", val, <<>>, FALSE, NoAnswers),
                Outcome(set_bus_freq_hz(dev, val), Ok, <<>>, <<>>))

\* <<ss_hcnt, ss_lcnt, fs_hcnt, fs_lcnt, hs_hcnt, hs_lcnt, sda_hold_time>>
CountVariants ==
    { <<0, 0, 0, 0, 0, 0, 0>>, <<400, 470, 60, 130, 6, 16, 28>>,
      <<400, 470, 0, 0, 0, 0, 0>>, <<0, 0, 60, 130, 0, 0, 0>>,
      <<0, 0, 0, 0, 6, 16, 0>>, <<0, 0, 0, 0, 6, 0, 28>>,
      <<400, 0, 0, 130, 0, 16, 0>>, <<0, 0, 0, 0, 0, 0, 28>> }

SetupStates ==
    {[I2c_new EXCEPT
        !.ss_hcnt = c[1], !.ss_lcnt = c[2], !.fs_hcnt = c[3],
        !.fs_lcnt = c[4], !.hs_hcnt = c[5], !.hs_lcnt = c[6],
        !.sda_hold_time = c[7], !.tx_fifo_depth = td, !.master_cfg = cfg,
        !.bus_freq_hz = I2cSpeedMode_create(f)] :
        c \in CountVariants, td \in {0, MaxFifo + 1},
        cfg \in {NONE, I2cCon_MASK},
        f \in {I2C_SPEED_MODE_STD, I2C_SPEED_MODE_HIGH}}

InitSetup == \E d \in SetupStates : Idle(d)

SetupHandlers ==
    \/ SetBusFreqHz
    \/ ConfigureMaster
    \/ ConfigureFifoMaster
    \/ InitMaster
    \/ Return

SpecSetup == InitSetup /\ [][SetupHandlers]_vars

SpecPeripheral == Init /\ [][PeripheralHandlers]_vars

----------------------------------------------------------------------------
(* Observations of the call that returned last *)

Returned(fn) == pc = "done" /\ call.fn = fn

ReturnedTransaction == pc = "done" /\ call.fn \in {"transaction7", "transaction10"}

\* the buffer passed to write_msg / read_msg
ArgBuf == call.ops[1].buf

IsDataWrite(e) == e.op = "w" /\ e.reg = "data_cmd"
DataWrites(l) == SelectSeq(l, IsDataWrite)

IsAccess(e) == e.op \in {"r", "w"}
Accesses(l) == SelectSeq(l, IsAccess)

\* transmit headroom of the call: tx_fifo_depth - txflr
Headroom == saturating_sub(pre.tx_fifo_depth, call.hw.txflr)

RecvLen(flag) == is_set(flag, I2cMsgFlag_RECV_LEN)

----------------------------------------------------------------------------
C2_PartialWriteRecorded ==
    (Returned("write_msg") /\ Len(ArgBuf) > Headroom) =>
        /\ is_set(dev.status, Status_WRITE_IN_PROGRESS)
        /\ dev.tx_outstanding = pre.tx_outstanding + 1
        /\ dev.tx_buf_len = Len(ArgBuf) - Headroom

(* C3: write_msg with a buffer of length L <= H and no RECV_LEN issues     *)
(* exactly L data-command writes, the k-th carrying buf[k] with READ       *)
(* clear, returns Ok and leaves WRITE_IN_PROGRESS clear.                   *)
C3_FittingWrite ==
    (Returned("write_msg") /\ Len(ArgBuf) <= Headroom /\ ~RecvLen(pre.tx_flag))
    =>  LET ws == DataWrites(log) IN
        /\ Len(ws) = Len(ArgBuf)
        /\ \A k \in 1..Len(ws) :
              /\ I2cDataCmd_data(ws[k].val) = ArgBuf[k]
              /\ ~is_set(ws[k].val, I2cDataCmd_READ)
        /\ ret = Ok
        /\ ~is_set(dev.status, Status_WRITE_IN_PROGRESS)

C3_Witness ==
    /\ Returned("write_msg")
    /\ Len(ArgBuf) = 2
    /\ Headroom = 2
    /\ ~RecvLen(pre.tx_flag)
    /\ is_set(pre.status, Status_WRITE_IN_PROGRESS)
    /\ Len(DataWrites(log)) = 2

(* C4: in a write_msg call RESTART is carried by no data-command write     *)
(* but the first, and by the first exactly when master_cfg has RESTART_EN  *)
(* and WRITE_IN_PROGRESS was clear when the call started.                  *)
C4_RestartOnFirstByteOnly ==
    Returned("write_msg") =>
        LET ws == DataWrites(log)
            wanted == is_set(pre.master_cfg, I2cCon_RESTART_EN)
                      /\ ~is_set(pre.status, Status_WRITE_IN_PROGRESS)
        IN  \A i \in 1..Len(ws) :
                is_set(ws[i].val, I2cDataCmd_RESTART) <=> (i = 1 /\ wanted)

C4_Witness ==
    /\ Returned("write_msg")
    /\ Len(DataWrites(log)) >= 2
    /\ is_set(DataWrites(log)[1].val, I2cDataCmd_RESTART)

(* C5: read_msg started with rx_outstanding >= rx_fifo_depth returns       *)
(* Err(Overrun), makes no register access and changes neither the engine   *)
(* nor the caller's buffer.                                                *)
C5_OverrunFailsClosed ==
    (Returned("read_msg") /\ pre.rx_outstanding >= pre.rx_fifo_depth) =>
        /\ ret = Err("Overrun")
        /\ log = <<>>
        /\ dev = pre
        /\ bufs[1] = ArgBuf

C5_Witness ==
    /\ Returned("read_msg")
    /\ pre.rx_outstanding = pre.rx_fifo_depth
    /\ pre.rx_fifo_depth > 0
    /\ Len(ArgBuf) > 0
    /\ ret = Err("Overrun")

----------------------------------------------------------------------------
(* Observations of a transaction *)

\* the target-address value the entry point built
TarOf(c) ==
    IF c.fn = "transaction10" THEN tar_10bit(c.address)
    ELSE tar_7bit(c.address)

LastWrite(ops) ==
    IF HasKind(ops, "Write")
    THEN CHOOSE i \in 1..Len(ops) :
            /\ ops[i].kind = "Write"
            /\ \A j \in (i + 1)..Len(ops) : ops[j].kind = "Read"
    ELSE 0

PathOf(kind) == IF kind = "Read" THEN "read_msg" ELSE "write_msg"

IsStopWrite(e) == IsDataWrite(e) /\ is_set(e.val, I2cDataCmd_STOP)
StopWrites(l) == SelectSeq(l, IsStopWrite)

IsTarWrite(e) == e.op = "w" /\ e.reg = "tar"

AnsweredInTime(c) == c.hw.ra.k <= PollMax(10, 100)

(* C6: after new, configure_master, init_master and with hardware that     *)
(* answers every read poll in time, a transaction (7-bit or 10-bit) runs   *)
(* xfer_init once, then calls the read path or write path once per         *)
(* operation in list order, write_msg getting last_msg = TRUE exactly for  *)
(* the last Write of the list; for [Write([1]), Read(2), Write([2, 3])]    *)
(* the only data-command write with STOP is the one carrying 3.            *)
C6_DispatchInOrder ==
    (ReturnedTransaction /\ setup = "ready" /\ AnsweredInTime(call)) =>
        /\ Len(SelectSeq(log, IsTarWrite)) = 1
        /\ Len(calls) = Len(call.ops)
        /\ \A i \in 1..Len(calls) :
              /\ calls[i].op = i
              /\ calls[i].fn = PathOf(call.ops[i].kind)
              /\ calls[i].buf = call.ops[i].buf
              /\ call.ops[i].kind = "Write"
                    => (calls[i].last_msg <=> i = LastWrite(call.ops))
        /\ call.ops = ExampleOps
              => /\ Len(StopWrites(log)) = 1
                 /\ I2cDataCmd_data(StopWrites(log)[1].val) = 3

(* C7: when the read path or write path fails for operation k, the         *)
(* transaction returns that error, no later operation is started (the      *)
(* register accesses are those of xfer_init and of operations 1..k) and    *)
(* the buffers of the later operations are unchanged.                      *)
C7_FirstErrorAborts ==
    ReturnedTransaction =>
        /\ log = xfer_init(TarOf(call), call.hw.da) \o FlatLog(calls)
        /\ \A k \in 1..Len(calls) :
              /\ calls[k].op = k
              /\ ~calls[k].ret.ok =>
                    /\ ret = calls[k].ret
                    /\ Len(calls) = k
                    /\ \A j \in (k + 1)..Len(call.ops) :
                          bufs[j] = call.ops[j].buf

C7_Witness ==
    /\ ReturnedTransaction
    /\ ret = Err("Other")
    /\ Len(calls) = 2
    /\ Len(call.ops) = 3
    /\ call.ops[3].kind = "Write"
    /\ Len(call.ops[3].buf) > 0
    /\ pre.tx_fifo_depth > 0

NoAckReasons ==
    BitOr(BitOr(I2cTxAbortSource_B7_ADDR_NOACK, I2cTxAbortSource_TXDATA_NOACK),
          BitOr(I2cTxAbortSource_B10_ADDR1_NOACK,
                I2cTxAbortSource_B10_ADDR2_NOACK))

IsAbortSource(e) == e.op = "r" /\ e.reg = "tx_abrt_source"

C9_FifoDepthsSet ==
    setup = "ready" =>
        /\ dev.tx_fifo_depth > 0
        /\ dev.rx_fifo_depth > 0
        /\ (Returned("read_msg") /\ pre.rx_outstanding = 0)
              => ret # Err("Overrun")

----------------------------------------------------------------------------
(* Observations of the read path *)

IsDelay(e) == e.op = "d"

RECURSIVE TotalDelay(_)
TotalDelay(l) ==
    IF l = <<>> THEN 0
    ELSE (IF IsDelay(Head(l)) THEN Head(l).val ELSE 0) + TotalDelay(Tail(l))

IsStatusRead(e) == e.op = "r" /\ e.reg = "intr_stat"

\* the positions in l of the reads of the masked interrupt status
StatusReads(l) == {i \in 1..Len(l) : IsStatusRead(l[i])}

SawRxFull(l) ==
    \E i \in StatusReads(l) : is_set(l[i].val, I2cIntr_RX_FULL)

IsFifoRead(e) == e.op = "r" /\ e.reg \in {"rxflr", "data_cmd"}

\* the call got past the overrun guard
Admitted == Returned("read_msg") /\ pre.rx_outstanding < pre.rx_fifo_depth

IsLevelRead(e) == e.op = "r" /\ e.reg = "rxflr"
IsPop(e) == e.op = "r" /\ e.reg = "data_cmd"

\* the words popped from the data-command register, in pop order
Pops(l) == SelectSeq(l, IsPop)

\* the byte a buffer holds for popped word w: its 8-bit data field, replaced
\* by 1 under RECV_LEN when it is 0 or above 32
StoredByte(flag, w) ==
    IF RecvLen(flag) /\ (w % 256 = 0 \/ w % 256 > 32) THEN 1 ELSE w % 256

(* C12: when its poll succeeds, read_msg(buf) reads the receive FIFO       *)
(* occupancy once, pops exactly n = min(buf.len(), occupancy) data words,  *)
(* stores their bytes in buf[0..n) in pop order, leaves buf[n..]           *)
(* unchanged and returns Ok.                                               *)
C12_DrainsMinOfLenAndOccupancy ==
    (Admitted /\ SawRxFull(log)) =>
        LET levels == {i \in 1..Len(log) : IsLevelRead(log[i])}
            n == IF Len(ArgBuf) <= call.hw.ra.rxflr
                 THEN Len(ArgBuf) ELSE call.hw.ra.rxflr
        IN  /\ Cardinality(levels) = 1
            /\ \A i \in levels : log[i].val = call.hw.ra.rxflr
            /\ \A i \in levels, j \in 1..Len(log) : IsPop(log[j]) => i < j
            /\ Len(Pops(log)) = n
            /\ Len(bufs[1]) = Len(ArgBuf)
            /\ \A i \in 1..Len(ArgBuf) :
                  bufs[1][i] = IF i <= n
                               THEN StoredByte(pre.rx_flag, Pops(log)[i].val)
                               ELSE ArgBuf[i]
            /\ ret = Ok

C12_Witness ==
    /\ Admitted
    /\ SawRxFull(log)
    /\ Len(ArgBuf) = 3
    /\ call.hw.ra.rxflr = 2
    /\ Pops(log) = <<Rd("data_cmd", 427), Rd("data_cmd", 434)>>
    /\ bufs[1] = <<171, 178, 170>>

(* C13: in read_msg, when rx_flag has RECV_LEN a popped byte value that is *)
(* 0 or greater than 32 is stored as 1 and a value in 1..32 is stored      *)
(* unchanged; without RECV_LEN every popped value 0..255 is stored         *)
(* unchanged.                                                              *)
C13_LengthByteNormalised ==
    (Admitted /\ ret.ok) =>
        \A i \in 1..Len(Pops(log)) :
            LET v == I2cDataCmd_data(Pops(log)[i].val)
            IN  /\ v \in 0..255
                /\ ~RecvLen(pre.rx_flag) => bufs[1][i] = v
                /\ (RecvLen(pre.rx_flag) /\ (v = 0 \/ v > 32))
                      => bufs[1][i] = 1
                /\ (RecvLen(pre.rx_flag) /\ v \in 1..32) => bufs[1][i] = v

C13_Witness ==
    /\ Admitted
    /\ ret.ok
    /\ RecvLen(pre.rx_flag)
    /\ Pops(log) = <<Rd("data_cmd", 32), Rd("data_cmd", 39)>>
    /\ bufs[1] = <<32, 1>>

----------------------------------------------------------------------------
(* Observations of read_clear_interrupt *)

\* the interrupt bits that have a dedicated clear register, with its name
DedicatedClear ==
    { <<I2cIntr_RX_UNDER, "clr_rx_under">>, <<I2cIntr_RX_OVER, "clr_rx_over">>,
      <<I2cIntr_TX_OVER, "clr_tx_over">>, <<I2cIntr_RD_REQ, "clr_rd_req">>,
      <<I2cIntr_TX_ABRT, "clr_tx_abrt">>, <<I2cIntr_RX_DONE, "clr_rx_done">>,
      <<I2cIntr_ACTIVITY, "clr_activity">>,
      <<I2cIntr_STOP_DET, "clr_stop_det">>,
      <<I2cIntr_START_DET, "clr_start_det">>,
      <<I2cIntr_GEN_CALL, "clr_gen_call">> }

\* the positions in l of the reads of register reg
ReadsOf(l, reg) == {i \in 1..Len(l) : l[i].op = "r" /\ l[i].reg = reg}

\* the status and the abort source the hardware answered to the call
AnsweredStatus == StatAt(call.hw.ra, 1)
AnsweredSource == call.hw.ra.src

(* C14: read_clear_interrupt reads the masked interrupt status exactly     *)
(* once, never reads the aggregate clear register, reads the dedicated     *)
(* clear register of a bit if and only if that bit is asserted in the      *)
(* status it read, and when TX_ABRT is asserted reads the abort source     *)
(* before the TX_ABRT clear register and returns it (NONE otherwise)       *)
(* together with the status.                                               *)
C14_ClearsAssertedBitsOnly ==
    Returned("read_clear_interrupt") =>
        /\ ReadsOf(log, "intr_stat") = {1}
        /\ log[1].val = AnsweredStatus
        /\ ReadsOf(log, "clr_intr") = {}
        /\ \A e \in 1..Len(log) : log[e].op = "r"
        /\ \A c \in DedicatedClear :
              Cardinality(ReadsOf(log, c[2]))
                  = IF is_set(AnsweredStatus, c[1]) THEN 1 ELSE 0
        /\ IF is_set(AnsweredStatus, I2cIntr_TX_ABRT)
           THEN /\ Cardinality(ReadsOf(log, "tx_abrt_source")) = 1
                /\ \A i \in ReadsOf(log, "tx_abrt_source"),
                      j \in ReadsOf(log, "clr_tx_abrt") :
                        i < j /\ log[i].val = AnsweredSource
                /\ ret = Value(<<AnsweredStatus, AnsweredSource>>)
           ELSE /\ ReadsOf(log, "tx_abrt_source") = {}
                /\ ret = Value(<<AnsweredStatus, NONE>>)

C14_Witness ==
    /\ Returned("read_clear_interrupt")
    /\ AnsweredStatus = BitOr(I2cIntr_TX_ABRT, I2cIntr_STOP_DET)
    /\ AnsweredSource = I2cTxAbortSource_ARB_LOST
    /\ log = << Rd("intr_stat", AnsweredStatus),
                Rd("tx_abrt_source", I2cTxAbortSource_ARB_LOST),
                Rd("clr_tx_abrt", 0), Rd("clr_stop_det", 0) >>
    /\ ret.val = <<AnsweredStatus, I2cTxAbortSource_ARB_LOST>>

----------------------------------------------------------------------------
(* Observations of xfer_init and init_master *)

\* the positions in l of the writes of register reg
WritesOf(l, reg) == {i \in 1..Len(l) : l[i].op = "w" /\ l[i].reg = reg}

Last(S) == CHOOSE i \in S : \A j \in S : j <= i

\* RX_FULL | TX_ABRT | STOP_DET | TX_EMPTY
MasterMask == 4 + 64 + 512 + 16

\* the accesses of a call after its disable sequence
AfterDisable(l, da) == SubSeq(l, Len(__disable(da)) + 1, Len(l))

(* C15: xfer_init(tar) performs, in order: the disable sequence; a control *)
(* write of MASTER_10BIT if tar has MODE_10BIT, else NONE; a target        *)
(* address write of tar; a mask write of NONE; an enable write of ENABLE;  *)
(* a read of enable-status; an acknowledgement of pending interrupts; a    *)
(* mask write of RX_FULL|TX_ABRT|STOP_DET|TX_EMPTY.  The mask is NONE when *)
(* ENABLE is written, and the call ends with the master mask as the last   *)
(* mask written and ENABLE as the last enable written.                     *)
C15_XferInitOrder ==
    Returned("xfer_init") =>
        LET da == call.hw.da
            tar == call.address
            rest == AfterDisable(log, da)
            en == {i \in WritesOf(log, "enable") : log[i].val = I2cEnable_ENABLE}
        IN  /\ SubSeq(log, 1, Len(__disable(da))) = __disable(da)
            /\ Len(rest) = 7
            /\ rest[1] = Wr("con", IF (tar \div 4096) % 2 = 1 THEN 16 ELSE 0)
            /\ rest[2] = Wr("tar", tar)
            /\ rest[3] = Wr("intr_mask", 0)
            /\ rest[4] = Wr("enable", 1)
            /\ rest[5].op = "r" /\ rest[5].reg = "enable_status"
            /\ rest[6].op = "r" /\ rest[6].reg = "clr_intr"
            /\ rest[7] = Wr("intr_mask", MasterMask)
            /\ Cardinality(en) = 1
            /\ \A i \in en :
                  /\ {j \in WritesOf(log, "intr_mask") : j < i} # {}
                  /\ log[Last({j \in WritesOf(log, "intr_mask") : j < i})].val
                        = 0
            /\ log[Last(WritesOf(log, "intr_mask"))].val = MasterMask
            /\ log[Last(WritesOf(log, "enable"))].val = 1
            /\ dev = pre
            /\ ret = Ok

C15_Witness ==
    /\ Returned("xfer_init")
    /\ call.address = 4096 + 291
    /\ is_set(call.hw.da.raw, I2cIntr_MST_ON_HOLD)
    /\ call.hw.da.actK = 2
    /\ Len(log) > 12
    /\ log[Len(log) - 6] = Wr("con", I2cCon_MASTER_10BIT)

----------------------------------------------------------------------------
(* Observations of the set-up calls *)

HsWrites(l) == WritesOf(l, "hs_scl_hcnt") \cup WritesOf(l, "hs_scl_lcnt")

C17_ZeroCountsNotProgrammed ==
    Returned("init_master") =>
        /\ (pre.ss_hcnt = 0 /\ pre.ss_lcnt = 0) =>
              WritesOf(log, "ss_scl_hcnt") \cup WritesOf(log, "ss_scl_lcnt")
                 = {}
        /\ (pre.fs_hcnt = 0 /\ pre.fs_lcnt = 0) =>
              WritesOf(log, "fs_scl_hcnt") \cup WritesOf(log, "fs_scl_lcnt")
                 = {}
        /\ (pre.hs_hcnt = 0 /\ pre.hs_lcnt = 0) => HsWrites(log) = {}

\* the speed class the requested frequency f stands for
RequestedSpeed(f) ==
    IF f = I2C_SPEED_MODE_STD THEN I2cCon_SPEED_STD
    ELSE IF f = I2C_SPEED_MODE_HIGH THEN I2cCon_SPEED_HIGH
    ELSE I2cCon_SPEED_FAST

MasterBase == I2cCon_MASTER + I2cCon_SLAVE_DISABLE + I2cCon_RESTART_EN

(* C18: after configure_master, functionality is ADDRESS_10BIT | default,  *)
(* mode is Master and master_cfg is MASTER | SLAVE_DISABLE | RESTART_EN |  *)
(* S, with S = SPEED_STD for the standard frequency, SPEED_HIGH for the    *)
(* high-speed one and SPEED_FAST for every other requested frequency, a    *)
(* numeric frequency given to set_bus_freq_hz that is no named mode        *)
(* included; the result does not depend on the previous master_cfg.  The   *)
(* second conjunct states it for the configure_master that follows a       *)
(* set_bus_freq_hz(f).                                                     *)
C18_ConfigureMasterResult ==
    /\ Returned("configure_master") =>
          /\ dev.functionality
                = BitOr(I2cFunc_ADDRESS_10BIT, I2cFunc_default)
          /\ dev.mode = "Master"
          /\ dev.master_cfg = MasterBase +
                (CASE pre.bus_freq_hz = "Standard" -> I2cCon_SPEED_STD
                   [] pre.bus_freq_hz = "High" -> I2cCon_SPEED_HIGH
                   [] OTHER -> I2cCon_SPEED_FAST)
          /\ dev = [pre EXCEPT !.functionality = dev.functionality,
                               !.mode = dev.mode,
                               !.master_cfg = dev.master_cfg]
    /\ Returned("set_bus_freq_hz") =>
          configure_master(dev).master_cfg
             = MasterBase + RequestedSpeed(call.address)

----------------------------------------------------------------------------
(* Observations of the interrupt mask *)

IsRegWrite(e) == e.op = "w"
RegWrites(l) == SelectSeq(l, IsRegWrite)

IsMaskWrite(e) == e.op = "w" /\ e.reg = "intr_mask"
MaskWrites(l) == SelectSeq(l, IsMaskWrite)

\* the mask the write path has to leave
ExpectedMask(msg_err, last_msg) ==
    IF msg_err # 0 THEN NONE
    ELSE IF last_msg THEN I2cIntr_RX_FULL + I2cIntr_TX_ABRT + I2cIntr_STOP_DET
    ELSE MasterMask

\* the last register write of the trace l is the mask write m
EndsWithMask(l, m) ==
    /\ RegWrites(l) # <<>>
    /\ RegWrites(l)[Len(RegWrites(l))] = Wr("intr_mask", m)
    /\ Len(MaskWrites(l)) = 1

\* the final Write operation of the transaction has been processed
FinalWriteDone ==
    \E k \in 1..Len(calls) : calls[k].op = LastWrite(call.ops)

(* C19: the last register write of every write_msg call is a write of the  *)
(* interrupt mask: NONE if msg_err is non-zero, otherwise RX_FULL |        *)
(* TX_ABRT | STOP_DET when last_msg is true, otherwise that with TX_EMPTY. *)
(* Within a transaction (no message-level error recorded) every mask       *)
(* written from the end of xfer_init on has TX_EMPTY, except the one the   *)
(* final Write operation leaves, which is the last mask written.           *)
C19_MaskAfterWrite ==
    /\ Returned("write_msg") =>
          EndsWithMask(log, ExpectedMask(pre.msg_err, call.last_msg))
    /\ ReturnedTransaction =>
          /\ \A k \in 1..Len(calls) :
                IF calls[k].fn = "write_msg"
                THEN EndsWithMask(calls[k].log,
                        ExpectedMask(pre.msg_err,
                                     calls[k].op = LastWrite(call.ops)))
                ELSE MaskWrites(calls[k].log) = <<>>
          /\ pre.msg_err = 0 =>
                LET m == MaskWrites(log)
                IN  /\ Len(m) >= 2
                    /\ m[1].val = NONE
                    /\ \A i \in 2..Len(m) :
                          is_set(m[i].val, I2cIntr_TX_EMPTY)
                             <=> ~(FinalWriteDone /\ i = Len(m))

C19_Witness ==
    /\ ReturnedTransaction
    /\ pre.msg_err = 0
    /\ Len(call.ops) = 2 /\ Len(calls) = 2
    /\ call.ops[1].kind = "Write" /\ call.ops[2].kind = "Write"
    /\ ret = Ok
    /\ Len(MaskWrites(log)) = 4
    /\ MaskWrites(log)[3].val = MasterMask
    /\ MaskWrites(log)[4].val = MasterMask - I2cIntr_TX_EMPTY

----------------------------------------------------------------------------
(* Observations of the target address *)

\* the value the transaction wrote to the target-address register, and the
\* value it wrote to the control register just before
TarWritten == log[Last(WritesOf(log, "tar"))].val
ConWritten == log[Last(WritesOf(log, "tar")) - 1]

(* C20: the target-address value the 7-bit entry point builds for address  *)
(* a is exactly a, with bit 12 clear and no bit set outside the address    *)
(* field [6:0], and the control register is written NONE; the value the    *)
(* 10-bit entry point builds is (a & 0x3FF) | MODE_10BIT, and the control  *)
(* register is written MASTER_10BIT.                                       *)
C20_TargetAddress ==
    /\ Returned("transaction7") =>
          /\ Cardinality(WritesOf(log, "tar")) = 1
          /\ TarWritten = call.address
          /\ ~is_set(TarWritten, I2cTar_MODE_10BIT)
          /\ BitClear(TarWritten, I2cTar_ADDR_MASK_7BIT) = 0
          /\ ConWritten = Wr("con", NONE)
    /\ Returned("transaction10") =>
          /\ Cardinality(WritesOf(log, "tar")) = 1
          /\ TarWritten
                = BitOr(BitAnd(call.address, I2cTar_ADDR_MASK_10BIT),
                        I2cTar_MODE_10BIT)
          /\ ConWritten = Wr("con", I2cCon_MASTER_10BIT)

----------------------------------------------------------------------------
(* Observations of the register bitfield types *)

ReturnedFrom == pc = "done" /\ call.fn \in BitfieldTypes

\* bit i (0..15) of the 16-bit half h
HalfBit(h, i) == (h \div (2 ^ i)) % 2

\* the half h of v & m, bit by bit
MaskedHalf(v, m, h) ==
    LET Sum[i \in 0..16] ==
            IF i = 16 THEN 0
            ELSE HalfBit(v[h], i) * HalfBit(Halves(m)[h], i) * (2 ^ i)
                 + Sum[i + 1]
    IN  Sum[0]

AllOnes == <<65535, 65535>>

(* C21: for every register bitfield type and every raw 32-bit value v,     *)
(* constructing the type from v and reading back its raw representation    *)
(* yields v & MASK of the type; the all-ones value yields exactly MASK;    *)
(* constructing again from the result gives the same value.                *)
C21_ConstructionMasks ==
    ReturnedFrom =>
        LET m == BitfieldMasks[call.fn]
        IN  /\ ret.val = <<MaskedHalf(call.address, m, 1),
                           MaskedHalf(call.address, m, 2)>>
            /\ call.address = AllOnes => ret.val = Halves(m)
            /\ from_u32(call.fn, ret.val) = ret.val

C21_Witness ==
    /\ ReturnedFrom
    /\ call.fn = "I2cTxAbortSource"
    /\ call.address = AllOnes
    /\ ret.val = <<0, I2cTxAbortSource_MASK>>

----------------------------------------------------------------------------
(* Observations of the register accessors *)

\* the register each accessor of the capability is named after
NamedRegister ==
    [get_con |-> "con", set_con |-> "con", get_tar |-> "tar",
     set_tar |-> "tar", get_sar |-> "sar", set_sar |-> "sar",
     get_tx_tl |-> "tx_tl", set_tx_tl |-> "tx_tl", get_rx_tl |-> "rx_tl",
     set_rx_tl |-> "rx_tl", get_ss_scl_hcnt |-> "ss_scl_hcnt",
     set_ss_scl_hcnt |-> "ss_scl_hcnt", get_ss_scl_lcnt |-> "ss_scl_lcnt",
     set_ss_scl_lcnt |-> "ss_scl_lcnt", get_fs_scl_hcnt |-> "fs_scl_hcnt",
     set_fs_scl_hcnt |-> "fs_scl_hcnt", get_fs_scl_lcnt |-> "fs_scl_lcnt",
     set_fs_scl_lcnt |-> "fs_scl_lcnt", get_hs_scl_hcnt |-> "hs_scl_hcnt",
     set_hs_scl_hcnt |-> "hs_scl_hcnt", get_hs_scl_lcnt |-> "hs_scl_lcnt",
     set_hs_scl_lcnt |-> "hs_scl_lcnt", get_sda_hold |-> "sda_hold",
     set_sda_hold |-> "sda_hold",
     get_raw_interrupt_stat |-> "raw_intr_stat",
     get_interrupt_stat |-> "intr_stat",
     get_interrupt_mask |-> "intr_mask",
     set_interrupt_mask |-> "intr_mask",
     get_clear_interrupt |-> "clr_intr",
     set_clear_interrupt |-> "clr_intr",
     get_clear_rx_under |-> "clr_rx_under",
     get_clear_rx_over |-> "clr_rx_over",
     get_clear_tx_over |-> "clr_tx_over",
     get_clear_rd_req |-> "clr_rd_req",
     get_clear_tx_abort |-> "clr_tx_abrt",
     get_clear_rx_done |-> "clr_rx_done",
     get_clear_activity |-> "clr_activity",
     get_clear_stop_det |-> "clr_stop_det",
     get_clear_start_det |-> "clr_start_det",
     get_clear_gen_call |-> "clr_gen_call", get_enable |-> "enable",
     set_enable |-> "enable", get_enable_status |-> "enable_status",
     set_enable_status |-> "enable_status", get_txflr |-> "txflr",
     set_txflr |-> "txflr", get_rxflr |-> "rxflr", set_rxflr |-> "rxflr",
     get_data_cmd |-> "data_cmd", set_data_cmd |-> "data_cmd",
     get_tx_abort_source |-> "tx_abrt_source"]

ReturnedGet == pc = "done" /\ call.fn \in {a[1] : a \in Getters}
ReturnedSet == pc = "done" /\ call.fn \in {a[1] : a \in Setters}

\* the register block after the accesses of the trace l
RECURSIVE Apply(_, _)
Apply(regs, l) ==
    IF l = <<>> THEN regs
    ELSE Apply(IF Head(l).op = "w"
               THEN [regs EXCEPT ![Head(l).reg] = Head(l).val]
               ELSE regs, Tail(l))

\* reading a clr_* register acknowledges an interrupt
TouchesInterruptState(l) ==
    \E i \in 1..Len(l) :
        l[i].reg \in {"clr_intr", "clr_rx_under", "clr_rx_over",
                      "clr_tx_over", "clr_rd_req", "clr_tx_abrt",
                      "clr_rx_done", "clr_activity", "clr_stop_det",
                      "clr_start_det", "clr_gen_call"}

(* C22: for every controller instance, each get_X accessor reads hardware  *)
(* register X and no other register, and each set_X accessor writes        *)
(* register X and no other.  get_enable returns the content of the enable  *)
(* register masked to its two defined bits and does not touch interrupt    *)
(* state, get_sda_hold returns the SDA-hold register, and                  *)
(* set_enable_status leaves the enable register unchanged.                 *)
C22_AccessorsReachTheirRegister ==
    /\ ReturnedGet =>
          /\ Len(log) = 1
          /\ log[1] = Rd(NamedRegister[call.fn],
                         call.hw.regs[NamedRegister[call.fn]])
          /\ Apply(call.hw.regs, log) = call.hw.regs
    /\ ReturnedSet =>
          /\ log = <<Wr(NamedRegister[call.fn], call.hw.v)>>
          /\ Apply(call.hw.regs, log)
                = [call.hw.regs EXCEPT ![NamedRegister[call.fn]] = call.hw.v]
    /\ Returned("get_enable") =>
          /\ ret.val = <<BitAnd(call.hw.regs["enable"], 3)>>
          /\ ~TouchesInterruptState(log)
    /\ Returned("get_sda_hold") => ret.val = <<call.hw.regs["sda_hold"]>>
    /\ Returned("set_enable_status") =>
          Apply(call.hw.regs, log)["enable"] = call.hw.regs["enable"]

----------------------------------------------------------------------------
(* Observations of the interrupt state *)

\* inside f, at any nesting depth
InsideFree == pc = "f"

\* free (or release) has just returned; pre is the machine before the call
LeftFree == call.fn \in {"free", "release"} /\ ret = Ok

(* C23: interrupt::free(f), and the acquire/release pair of the critical   *)
(* section, restore the interrupt state: for every initial value of the    *)
(* machine interrupt-enable bit and of the 25 PLIC enable registers, MIE   *)
(* is clear and all PLIC enable registers are reset while f runs, and      *)
(* after the return MIE and every PLIC enable register equal their values  *)
(* from before the call; also for nested use.                              *)
C23_FreeRestoresInterruptState ==
    /\ InsideFree =>
          /\ dev.mie = 0
          /\ \A n \in PlicRegs : dev.plic[n] = PlicReset
    /\ LeftFree =>
          /\ dev.mie = pre.mie
          /\ \A n \in PlicRegs : dev.plic[n] = pre.plic[n]

----------------------------------------------------------------------------
(* Observations of the UART receive path *)

IsReceived(a) == a.kind = "Ok"

\* the answers read_bytes consumed: up to the first WouldBlock that follows
\* a received byte, or the first error
Consumed(ans) ==
    LET stops == {i \in 1..Len(ans) :
                    \/ ans[i].kind = "Other"
                    \/ /\ ans[i].kind = "WouldBlock"
                       /\ \E j \in 1..(i - 1) : ans[j].kind = "Ok"}
    IN  IF stops = {} THEN ans
        ELSE SubSeq(ans, 1, CHOOSE i \in stops : \A j \in stops : i <= j)

\* the bytes that arrived during the call, in arrival order
Arrived(ans) == SelectSeq(Consumed(ans), IsReceived)

(* C24: UartRx::read_bytes(buf) with a non-empty buf returns Ok(n) only    *)
(* with 1 <= n <= buf.len(), the n received bytes are stored in buf[0..n)  *)
(* in arrival order, and a peripheral error is returned as Err without     *)
(* being counted as a byte.                                                *)
C24_ReadBytesAtLeastOne ==
    (Returned("read_bytes") /\ Len(ArgBuf) > 0) =>
        /\ ret.ok =>
              /\ ret.val[1] \in 1..Len(ArgBuf)
              /\ ret.val[1] = Len(Arrived(call.hw))
              /\ \A i \in 1..Len(Arrived(call.hw)) :
                    bufs[1][i] = Arrived(call.hw)[i].val
        /\ (Consumed(call.hw) # <<>>
            /\ Consumed(call.hw)[Len(Consumed(call.hw))].kind = "Other")
              => ret = Err("ReadOverrun")

----------------------------------------------------------------------------
(* Observations of the disable sequence.  init_master runs __disable once  *)
(* and touches the enable register nowhere else.                           *)

AbortWrites(l) == {i \in WritesOf(l, "enable") : l[i].val = I2cEnable_ABORT}
NoneWrites(l) == {i \in WritesOf(l, "enable") : l[i].val = NONE}

\* the reads of the enable register that poll for the abort
AbortPolls(l) == {i \in ReadsOf(l, "enable") : i > 2}

AbortNeeded(l) ==
    /\ is_set(l[1].val, I2cIntr_MST_ON_HOLD)
    /\ ~is_set(l[2].val, I2cEnable_ABORT)

(* C25: in __disable, when the raw interrupt status shows master-on-hold   *)
(* and the enable register shows no abort request, the engine writes an    *)
(* abort request and polls the enable register every 10 microseconds: the  *)
(* poll ends successfully only on a read in which the abort bit is clear,  *)
(* and only then does the enable = NONE loop start; if the abort bit is    *)
(* still set when the budget is exhausted, __disable returns without an    *)
(* enable = NONE write.  Otherwise no abort request is written and the     *)
(* loop starts directly.                                                   *)
C25_AbortPollWaitsForClear ==
    Returned("init_master") =>
        /\ log[1].op = "r" /\ log[1].reg = "raw_intr_stat"
        /\ log[2].op = "r" /\ log[2].reg = "enable"
        /\ AbortNeeded(log) =>
              /\ log[3] = Wr("enable", I2cEnable_ABORT)
              /\ AbortPolls(log) # {}
              /\ \A i \in AbortPolls(log) :
                    i # Last(AbortPolls(log)) => log[i + 1] = Delay(10)
              /\ NoneWrites(log) # {} =>
                    /\ ~is_set(log[Last(AbortPolls(log))].val, I2cEnable_ABORT)
                    /\ \A i \in NoneWrites(log) : i > Last(AbortPolls(log))
              /\ is_set(log[Last(AbortPolls(log))].val, I2cEnable_ABORT)
                    => NoneWrites(log) = {}
        /\ ~AbortNeeded(log) =>
              /\ AbortWrites(log) = {}
              /\ AbortPolls(log) = {}
              /\ log[3] = Wr("enable", NONE)

\* the reads of enable-status, in order
IsEnableStatusRead(e) == e.op = "r" /\ e.reg = "enable_status"
EnableStatusReads(l) == SelectSeq(l, IsEnableStatusRead)

(* C26: the second stage of __disable repeats at most 100 times: write     *)
(* enable = NONE, read enable-status; it returns at the first iteration    *)
(* whose read shows ACTIVITY clear, and while ACTIVITY is set it sleeps 25 *)
(* microseconds and retries.  When __disable returns before its 100th      *)
(* iteration the last enable-status read had ACTIVITY clear, and there are *)
(* at most 100 enable = NONE writes.                                       *)
C26_DisableLoopEndsWhenInactive ==
    (Returned("init_master") /\ NoneWrites(log) # {}) =>
        LET st == EnableStatusReads(log)
        IN  /\ Cardinality(NoneWrites(log)) <= DisableTimeout
            /\ Len(st) = Cardinality(NoneWrites(log))
            /\ \A i \in 1..(Len(st) - 1) :
                  is_set(st[i].val, I2cEnableStatus_ACTIVITY)
            /\ Len(st) < DisableTimeout =>
                  ~is_set(st[Len(st)].val, I2cEnableStatus_ACTIVITY)

\* the calls that run __disable (once each)
RunsDisable ==
    pc = "done"
    /\ call.fn \in {"init_master", "xfer_init", "transaction7",
                    "transaction10"}

(* C27: every call of __disable writes an abort request to the enable      *)
(* register at most once, whatever the hardware answers afterwards.        *)
C27_AtMostOneAbort ==
    RunsDisable => Cardinality(AbortWrites(log)) <= 1

C27_Witness ==
    /\ Returned("init_master")
    /\ AbortNeeded(log)
    /\ Cardinality(AbortWrites(log)) = 1
    /\ Cardinality(AbortPolls(log)) = PollMax(10, 100)
    /\ NoneWrites(log) = {}

----------------------------------------------------------------------------
(* Observations of the status flags *)

\* the bits of status s outside the in-progress flag own
Others(s, own) == BitClear(s, own)

\* every step of the transaction went through the path fn
OnlyPath(fn) ==
    /\ ReturnedTransaction
    /\ calls # <<>>
    /\ \A k \in 1..Len(calls) : calls[k].fn = fn

----------------------------------------------------------------------------
(* Observations of the control register *)

\* the value last written to the control register during the call
LastCon == log[Last(WritesOf(log, "con"))].val

(* C29: after configure_master and init_master, at the end of every        *)
(* transaction the value last written to the control register still has    *)
(* MASTER, SLAVE_DISABLE, RESTART_EN and the speed-class bits of           *)
(* master_cfg: transfer setup changes only the 10-bit-master addressing    *)
(* bit.                                                                    *)
C29_ControlKeepsMasterConfig ==
    (ReturnedTransaction /\ setup = "ready") =>
        /\ WritesOf(log, "con") # {}
        /\ BitAnd(LastCon, MasterBase) = MasterBase
        /\ BitClear(LastCon, I2cCon_MASTER_10BIT) = dev.master_cfg

----------------------------------------------------------------------------
(* Observations of the end of a transaction *)

\* the transaction returned Ok for a non-empty operation list
SucceededTransaction == ReturnedTransaction /\ ret.ok /\ call.ops # <<>>

(* C30: every transaction that returns Ok for a non-empty operation list   *)
(* has issued exactly one STOP-flagged data-command write, and no          *)
(* data-command write follows it; this includes read-only transactions,    *)
(* transactions whose last operation is a Read, and transactions whose     *)
(* last Write buffer is empty or larger than the transmit headroom.        *)
C30_StopEndsTransaction ==
    SucceededTransaction =>
        /\ Len(StopWrites(log)) = 1
        /\ IsStopWrite(DataWrites(log)[Len(DataWrites(log))])

====
